---- MODULE Spec2Model ----
(***************************************************************************)
(* Model of src/main.py: the per-user city list (table "cities"), the      *)
(* handlers add_city, remove_city, reset_cities, login (default-city       *)
(* seeding) and update_weather (staleness-gated concurrent refresh).       *)
(*                                                                         *)
(* update_weather is split at its await points: the load (query, now,      *)
(* eligibility test, dispatch of the fetches), the completion of each      *)
(* fetch, and db.commit().  The async handlers add_city, remove_city and   *)
(* reset_cities contain no await and run to completion on the event loop.  *)
(* login is a sync handler, run on a worker thread: its emptiness test and *)
(* its seeding commit are two steps.                                       *)
(*                                                                         *)
(* The ORM session of one update_weather request is the pair orig/cur of   *)
(* a batch: orig is what the query loaded, cur the attribute values after  *)
(* update_city assigned them.  db.commit() emits, for every object with a  *)
(* net change, UPDATE cities SET <changed columns> WHERE id = <pk>, all in *)
(* one transaction; an UPDATE matching no row aborts the transaction.      *)
(* New rows get id max(id)+1 (INTEGER PRIMARY KEY of SQLite).              *)
(***************************************************************************)
EXTENDS Integers, FiniteSets, Sequences, TLC

\* ---------------------------------------------------------------- bounds
MaxId == 2
MaxTime == 16
MaxOps == 4
MaxLogins == 1

\* ------------------------------------------------------------- constants
Cooldown == 15

None == -1

Users == {1, 2}
Names == {"A", "B"}
Lats == {50}
Lons == {30}
Temps == {20, 21}
TickSteps == {Cooldown, Cooldown + 1}

Ids == 1..MaxId
Slots == {1, 2}

DefaultCity == <<[name |-> "A", latitude |-> 50, longitude |-> 30]>>

\* cities   : the table, id -> row
\* clock    : what datetime.utcnow() returns, in minutes
\* batch    : the update_weather requests; a running one holds its session
\*            (orig, cur), its now, the position of every update_city (pc:
\*            "skip", "fetching", "ok", "fail"), what fetch_weather returned
\*            (fetched), the session.get calls made for every point (calls)
\*            and the loaded ids whose row was deleted since (gone)
\* seeding  : per user, the login requests past the test of line 297
\* ops      : the requests handled so far
\* lastCall : per id, the time of the last provider call for that row
\* lastDone : per id, the latest now of a committed batch that attempted that row
\* outcome  : what the last request of add_city or remove_city found
VARIABLES cities, clock, batch, seeding, ops, lastCall, lastDone, outcome

vars == <<cities, clock, batch, seeding, ops, lastCall, lastDone, outcome>>

\* ------------------------------------------------------------- the table
City(name, latitude, longitude, user_id) ==
    [name |-> name, latitude |-> latitude, longitude |-> longitude,
     temperature |-> None, updated_at |-> None, user_id |-> user_id]

MaxOf(S) == CHOOSE m \in S : \A x \in S : x <= m

NewId(c) == IF DOMAIN c = {} THEN 1 ELSE MaxOf(DOMAIN c) + 1

Insert(c, row) ==
    LET n == NewId(c)
    IN  [i \in DOMAIN c \cup {n} |-> IF i \in DOMAIN c THEN c[i] ELSE row]

Delete(c, S) == [i \in DOMAIN c \ S |-> c[i]]

OwnedBy(c, u) == {i \in DOMAIN c : c[i].user_id = u}

RECURSIVE InsertDefaults(_, _, _)
InsertDefaults(c, defs, u) ==
    IF defs = <<>> THEN c
    ELSE InsertDefaults(
             Insert(c, City(Head(defs).name, Head(defs).latitude,
                            Head(defs).longitude, u)),
             Tail(defs), u)

\* rows a reader of the index page gets for user u
read_root(c, u) == [i \in OwnedBy(c, u) |-> c[i]]

\* ---------------------------------------------------------- the session
Reading(row) == [temperature |-> row.temperature, updated_at |-> row.updated_at]

IdleBatch ==
    [status |-> "idle", user |-> 0, now |-> 0,
     orig |-> [i \in {} |-> Reading(City("A", 0, 0, 0))],
     cur |-> [i \in {} |-> Reading(City("A", 0, 0, 0))],
     pc |-> [i \in {} |-> "skip"],
     fetched |-> [i \in {} |-> None],
     calls |-> [i \in {} |-> 0],
     gone |-> {}]

\* variant: eligible already at exactly the cooldown
EligibleAtCooldown(updated_at, now) ==
    updated_at = None \/ now - updated_at >= Cooldown

\* line 200
Eligible(updated_at, now) ==
    updated_at = None \/ now - updated_at > Cooldown

\* variant: updated_at assigned outside the if
update_city_stamping(reading, now) ==
    IF Eligible(reading.updated_at, now)
    THEN [pc |-> "fetching", reading |-> reading]
    ELSE [pc |-> "skip", reading |-> [reading EXCEPT !.updated_at = now]]

\* update_city up to its await: the test of line 200
update_city(reading, now) ==
    IF Eligible(reading.updated_at, now)
    THEN [pc |-> "fetching", reading |-> reading]
    ELSE [pc |-> "skip", reading |-> reading]

\* variant: line 206 missing
resume_keeping_stamp(reading, result, now) ==
    [temperature |-> result, updated_at |-> reading.updated_at]

\* variant: nothing assigned when the fetch failed
resume_on_success_only(reading, result, now) ==
    IF result = None THEN reading
    ELSE [temperature |-> result, updated_at |-> now]

\* update_city after its await: the assignments of lines 201 and 206
update_city_resume(reading, result, now) ==
    [temperature |-> result, updated_at |-> now]

Attempted(b) == {i \in DOMAIN b.pc : b.pc[i] # "skip"}

Dirty(b) == {i \in DOMAIN b.cur : b.cur[i] # b.orig[i]}

\* the UPDATE of one dirty object: the columns with a net change
Updated(row, orig, cur) ==
    [row EXCEPT
        !.temperature = IF cur.temperature # orig.temperature
                        THEN cur.temperature ELSE @,
        !.updated_at = IF cur.updated_at # orig.updated_at
                       THEN cur.updated_at ELSE @]

\* variant: only the first UPDATE lands
FlushLowestOnly(c, b) ==
    [i \in DOMAIN c |->
        IF i \in Dirty(b) /\ \A j \in Dirty(b) : i <= j
        THEN Updated(c[i], b.orig[i], b.cur[i])
        ELSE c[i]]

\* variant: updated_at is not written
FlushTemperatureOnly(c, b) ==
    [i \in DOMAIN c |->
        IF i \in Dirty(b)
        THEN [c[i] EXCEPT
                 !.temperature = IF b.cur[i].temperature # b.orig[i].temperature
                                 THEN b.cur[i].temperature ELSE @]
        ELSE c[i]]

\* variant: one failed fetch drops the whole batch
FlushUnlessFailed(c, b) ==
    [i \in DOMAIN c |->
        IF i \in Dirty(b) /\ \A j \in DOMAIN b.pc : b.pc[j] # "fail"
        THEN Updated(c[i], b.orig[i], b.cur[i])
        ELSE c[i]]

\* the flush of db.commit(): one UPDATE per dirty object
Flush(c, b) ==
    [i \in DOMAIN c |->
        IF i \in Dirty(b)
        THEN Updated(c[i], b.orig[i], b.cur[i])
        ELSE c[i]]

\* variant: a failed fetch raises out of gather
StaleOrFetchFailed(c, b) ==
    \/ \E i \in Dirty(b) : i \notin DOMAIN c
    \/ \E i \in DOMAIN b.pc : b.pc[i] = "fail"

\* an UPDATE of the flush matches no row
Stale(c, b) == \E i \in Dirty(b) : i \notin DOMAIN c

\* rows with ids in S were deleted: running sessions still hold the objects
MarkGone(bs, S) ==
    [s \in Slots |->
        IF bs[s].status = "running"
        THEN [bs[s] EXCEPT !.gone = @ \cup (S \cap DOMAIN bs[s].orig)]
        ELSE bs[s]]

\* ids in S now name new rows
Forget(h, S) == [i \in Ids |-> IF i \in S THEN None ELSE h[i]]

\* a request went through (every handler answers with a redirect)
Done == [kind |-> "done", id |-> 0]

\* ------------------------------------------------------------------ Init
Init ==
    /\ cities = [i \in {} |-> City("A", 0, 0, 0)]
    /\ clock = 0
    /\ batch = [s \in Slots |-> IdleBatch]
    /\ seeding = [u \in Users |-> 0]
    /\ ops = 0
    /\ lastCall = [i \in Ids |-> None]
    /\ lastDone = [i \in Ids |-> None]
    /\ outcome = Done

\* --------------------------------------------------------------- actions
Tick(d) ==
    /\ clock + d <= MaxTime
    /\ clock' = clock + d
    /\ UNCHANGED <<cities, batch, seeding, ops, lastCall, lastDone, outcome>>

\* variant: a duplicate name replaces the existing row
add_city_replacing(u, name, latitude, longitude) ==
    /\ ops < MaxOps
    /\ ops' = ops + 1
    /\ IF \E i \in OwnedBy(cities, u) : cities[i].name = name
       THEN /\ cities' = [i \in DOMAIN cities |->
                   IF cities[i].user_id = u /\ cities[i].name = name
                   THEN City(name, latitude, longitude, u) ELSE cities[i]]
            /\ outcome' = [kind |-> "duplicate", id |-> 0]
            /\ UNCHANGED <<lastCall, lastDone>>
       ELSE /\ NewId(cities) <= MaxId
            /\ cities' = Insert(cities, City(name, latitude, longitude, u))
            /\ lastCall' = Forget(lastCall, {NewId(cities)})
            /\ lastDone' = Forget(lastDone, {NewId(cities)})
            /\ outcome' = Done
    /\ UNCHANGED <<clock, batch, seeding>>

add_city(u, name, latitude, longitude) ==
    /\ ops < MaxOps
    /\ ops' = ops + 1
    /\ IF \E i \in OwnedBy(cities, u) : cities[i].name = name
       THEN /\ outcome' = [kind |-> "duplicate", id |-> 0]
            /\ UNCHANGED <<cities, lastCall, lastDone>>
       ELSE /\ NewId(cities) <= MaxId
            /\ cities' = Insert(cities, City(name, latitude, longitude, u))
            /\ lastCall' = Forget(lastCall, {NewId(cities)})
            /\ lastDone' = Forget(lastDone, {NewId(cities)})
            /\ outcome' = Done
    /\ UNCHANGED <<clock, batch, seeding>>

\* variant: the filter City.user_id == user.id missing
remove_city_of_anyone(u, city_id) ==
    /\ ops < MaxOps
    /\ ops' = ops + 1
    /\ IF city_id \in DOMAIN cities
       THEN /\ cities' = Delete(cities, {city_id})
            /\ batch' = MarkGone(batch, {city_id})
            /\ outcome' = Done
       ELSE /\ outcome' = [kind |-> "not_found", id |-> city_id]
            /\ UNCHANGED <<cities, batch>>
    /\ UNCHANGED <<clock, seeding, lastCall, lastDone>>

remove_city(u, city_id) ==
    /\ ops < MaxOps
    /\ ops' = ops + 1
    /\ IF city_id \in OwnedBy(cities, u)
       THEN /\ cities' = Delete(cities, {city_id})
            /\ batch' = MarkGone(batch, {city_id})
            /\ outcome' = Done
       ELSE /\ outcome' = [kind |-> "not_found", id |-> city_id]
            /\ UNCHANGED <<cities, batch>>
    /\ UNCHANGED <<clock, seeding, lastCall, lastDone>>

reset_cities(u) ==
    LET kept == Delete(cities, OwnedBy(cities, u))
        new == InsertDefaults(kept, DefaultCity, u)
    IN  /\ ops < MaxOps
        /\ ops' = ops + 1
        /\ DOMAIN new \subseteq Ids
        /\ cities' = new
        /\ batch' = MarkGone(batch, OwnedBy(cities, u))
        /\ lastCall' = Forget(lastCall, DOMAIN new \ DOMAIN kept)
        /\ lastDone' = Forget(lastDone, DOMAIN new \ DOMAIN kept)
        /\ outcome' = Done
        /\ UNCHANGED <<clock, seeding>>

\* login up to line 297: the test whether the user has a city
login(u) ==
    /\ ops < MaxOps
    /\ ops' = ops + 1
    /\ IF OwnedBy(cities, u) = {}
       THEN /\ seeding[u] < MaxLogins
            /\ seeding' = [seeding EXCEPT ![u] = @ + 1]
       ELSE UNCHANGED seeding
    /\ outcome' = Done
    /\ UNCHANGED <<cities, clock, batch, lastCall, lastDone>>

\* login, lines 298-306: add the defaults and commit
login_seed(u) ==
    LET new == InsertDefaults(cities, DefaultCity, u)
    IN  /\ seeding[u] > 0
        /\ DOMAIN new \subseteq Ids
        /\ cities' = new
        /\ seeding' = [seeding EXCEPT ![u] = @ - 1]
        /\ lastCall' = Forget(lastCall, DOMAIN new \ DOMAIN cities)
        /\ lastDone' = Forget(lastDone, DOMAIN new \ DOMAIN cities)
        /\ UNCHANGED <<clock, batch, ops, outcome>>

\* update_weather, lines 194-208, up to the await of every update_city
update_weather(s, u) ==
    LET mine == OwnedBy(cities, u)
        started == [i \in mine |-> update_city(Reading(cities[i]), clock)]
    IN  /\ ops < MaxOps
        /\ ops' = ops + 1
        /\ batch[s].status # "running"
        /\ \A t \in Slots : t < s => batch[t].status = "running"
        /\ batch' = [batch EXCEPT ![s] =
               [status |-> "running", user |-> u, now |-> clock,
                orig |-> [i \in mine |-> Reading(cities[i])],
                cur |-> [i \in mine |-> started[i].reading],
                pc |-> [i \in mine |-> started[i].pc],
                fetched |-> [i \in mine |-> None],
                calls |-> [i \in mine |->
                              IF started[i].pc = "fetching" THEN 1 ELSE 0],
                gone |-> {}]]
        /\ lastCall' = [i \in Ids |->
               IF i \in mine /\ started[i].pc = "fetching"
               THEN clock ELSE lastCall[i]]
        /\ outcome' = Done
        /\ UNCHANGED <<cities, clock, seeding, lastDone>>

\* variant: a failed session.get is tried once more
fetch_weather_retrying(s, i, result) ==
    /\ batch[s].status = "running"
    /\ i \in DOMAIN batch[s].pc
    /\ batch[s].pc[i] = "fetching"
    /\ IF result = None /\ batch[s].calls[i] < 2
       THEN batch' = [batch EXCEPT ![s].calls[i] = @ + 1]
       ELSE batch' = [batch EXCEPT
                ![s].pc[i] = IF result = None THEN "fail" ELSE "ok",
                ![s].fetched[i] = result,
                ![s].cur[i] = update_city_resume(@, result, batch[s].now)]
    /\ UNCHANGED <<cities, clock, seeding, ops, lastCall, lastDone, outcome>>

\* fetch_weather returns result (None on any failure); update_city resumes
fetch_weather(s, i, result) ==
    /\ batch[s].status = "running"
    /\ i \in DOMAIN batch[s].pc
    /\ batch[s].pc[i] = "fetching"
    /\ batch' = [batch EXCEPT
           ![s].pc[i] = IF result = None THEN "fail" ELSE "ok",
           ![s].fetched[i] = result,
           ![s].cur[i] = update_city_resume(@, result, batch[s].now)]
    /\ UNCHANGED <<cities, clock, seeding, ops, lastCall, lastDone, outcome>>

\* update_weather, lines 210-211, after gather has returned: the commit, then
\* the response is sent and the session closed
commit(s) ==
    LET b == batch[s]
    IN  /\ b.status = "running"
        /\ \A i \in DOMAIN b.pc : b.pc[i] # "fetching"
        /\ IF Stale(cities, b)
           THEN /\ batch' = [batch EXCEPT ![s] = [IdleBatch EXCEPT !.status = "failed"]]
                /\ UNCHANGED <<cities, lastDone>>
           ELSE /\ cities' = Flush(cities, b)
                /\ batch' = [batch EXCEPT ![s] = [IdleBatch EXCEPT !.status = "committed"]]
                /\ lastDone' = [i \in Ids |->
                       IF i \in Attempted(b) \ b.gone /\ b.now > lastDone[i]
                       THEN b.now ELSE lastDone[i]]
        /\ UNCHANGED <<clock, seeding, ops, lastCall, outcome>>

NoneRunning == \A s \in Slots : batch[s].status # "running"

Others ==
    \/ \E d \in TickSteps : Tick(d)
    \/ \E u \in Users, n \in Names, la \in Lats, lo \in Lons : add_city(u, n, la, lo)
    \/ \E u \in Users, i \in Ids : remove_city(u, i)
    \/ \E u \in Users : reset_cities(u)
    \/ \E u \in Users : login(u)
    \/ \E u \in Users : login_seed(u)
    \/ \E s \in Slots, i \in Ids, r \in Temps \cup {None} : fetch_weather(s, i, r)
    \/ \E s \in Slots : commit(s)

Next ==
    \/ Others
    \/ \E s \in Slots, u \in Users : update_weather(s, u)

Spec == Init /\ [][Next]_vars

\* refresh requests one after the other: none starts while another is running
NextSeq ==
    \/ Others
    \/ \E s \in Slots, u \in Users : NoneRunning /\ update_weather(s, u)

SpecSeq == Init /\ [][NextSeq]_vars

\* ---------------------------------------------------------------- claims
Committing(s) == batch[s].status = "running" /\ batch'[s].status = "committed"

Starting(s) == batch[s].status # "running" /\ batch'[s].status = "running"

\* C1: a point whose fetch failed and whose temperature was present before the
\* batch has, after the commit of the batch, its pre-batch temperature.
FailedFetchKeepsTemperature ==
    [][\A s \in Slots : Committing(s) =>
          \A i \in DOMAIN batch[s].pc :
              (batch[s].pc[i] = "fail" /\ batch[s].orig[i].temperature # None
                  /\ i \notin batch[s].gone)
              => cities'[i].temperature = batch[s].orig[i].temperature]_vars

\* C2 (as stated): in every state every row has its temperature and its
\* timestamp both present or both absent.
BothOrNeither ==
    \A i \in DOMAIN cities :
        (cities[i].temperature = None) <=> (cities[i].updated_at = None)

\* C2 (amended): in every state a row with a temperature has a timestamp; a
\* timestamp without a temperature is what a failed fetch leaves.
TemperatureHasTimestamp ==
    \A i \in DOMAIN cities :
        cities[i].temperature # None => cities[i].updated_at # None

FetchedRowStored ==
    \E i \in DOMAIN cities :
        cities[i].temperature # None /\ lastDone[i] = cities[i].updated_at

\* C3: a provider call for a point is issued only if the last call for that
\* point is more than one cooldown back, whatever the interleaving of batches.
OneFetchPerCooldown ==
    [][\A s \in Slots : Starting(s) =>
          \A i \in DOMAIN batch'[s].pc :
              batch'[s].pc[i] = "fetching"
              => (lastCall[i] = None \/ clock - lastCall[i] > Cooldown)]_vars

\* C4: a loaded point is attempted exactly when its timestamp is absent or
\* older than the cooldown by more than zero; at exactly the cooldown, or
\* less, it is skipped.
EligibleExactly ==
    \A s \in Slots : batch[s].status = "running" =>
        \A i \in DOMAIN batch[s].orig :
            LET t == batch[s].orig[i].updated_at
            IN  /\ (t = None => batch[s].pc[i] # "skip")
                /\ (t # None /\ batch[s].now - t > Cooldown => batch[s].pc[i] # "skip")
                /\ (t # None /\ batch[s].now - t = Cooldown => batch[s].pc[i] = "skip")
                /\ (t # None /\ batch[s].now - t < Cooldown => batch[s].pc[i] = "skip")

SkippedAtCooldown ==
    \E s \in Slots :
        /\ batch[s].status = "running"
        /\ \E i \in DOMAIN batch[s].orig :
               /\ batch[s].orig[i].updated_at # None
               /\ batch[s].now - batch[s].orig[i].updated_at = Cooldown
               /\ batch[s].pc[i] = "skip"

Ineligible(b, i) ==
    b.orig[i].updated_at # None /\ b.now - b.orig[i].updated_at <= Cooldown

\* C5: a point judged ineligible gets no provider call, its object in the
\* session stays as loaded, and the commit of the batch leaves its row as it was.
SkippedUntouched ==
    [][\A s \in Slots : batch[s].status = "running" =>
          \A i \in DOMAIN batch[s].orig : Ineligible(batch[s], i) =>
              /\ batch[s].pc[i] = "skip"
              /\ batch[s].cur[i] = batch[s].orig[i]
              /\ (batch'[s].status = "running" => batch'[s].pc[i] = "skip")
              /\ (Committing(s) /\ i \in DOMAIN cities
                    => Reading(cities'[i]) = Reading(cities[i]))]_vars

SkippedPointCommitted ==
    \E i \in DOMAIN cities :
        /\ lastDone[i] # None
        /\ cities[i].updated_at = lastDone[i]
        /\ \E s \in Slots : batch[s].status = "committed"
        /\ \E j \in DOMAIN cities :
               /\ j # i
               /\ cities[j].user_id = cities[i].user_id
               /\ lastDone[j] # None
               /\ lastDone[j] > lastDone[i]

\* C6: the commit of a batch stamps every point whose fetch failed with the
\* now of the batch, so that the point is ineligible for one cooldown from it.
FailedFetchStamped ==
    [][\A s \in Slots : Committing(s) =>
          \A i \in DOMAIN batch[s].pc : batch[s].pc[i] = "fail" =>
              /\ i \in DOMAIN cities'
              /\ cities'[i].updated_at = batch[s].now
              /\ \A t \in batch[s].now .. batch[s].now + Cooldown :
                     ~ Eligible(cities'[i].updated_at, t)]_vars

FailedFetchStored ==
    \E i \in DOMAIN cities :
        /\ cities[i].temperature = None
        /\ cities[i].updated_at # None
        /\ lastDone[i] = cities[i].updated_at

\* C7: with refresh batches one after the other, the commit of a batch gives
\* every point whose fetch succeeded its own fetched value and the now of the
\* batch, whichever of its siblings failed.
SucceededFetchStored ==
    [][\A s \in Slots : Committing(s) =>
          \A i \in DOMAIN batch[s].pc :
              (batch[s].pc[i] = "ok" /\ i \notin batch[s].gone) =>
                  /\ i \in DOMAIN cities'
                  /\ cities'[i].temperature = batch[s].fetched[i]
                  /\ cities'[i].updated_at = batch[s].now]_vars

SiblingFailedOtherStored ==
    \E i, j \in DOMAIN cities :
        /\ i # j
        /\ cities[i].user_id = cities[j].user_id
        /\ lastDone[i] # None
        /\ lastDone[i] = lastDone[j]
        /\ cities[i].updated_at = lastDone[i]
        /\ cities[j].updated_at = lastDone[j]
        /\ cities[i].temperature = None
        /\ cities[j].temperature # None

\* C8: with refresh batches one after the other, a batch that starts at most
\* one cooldown after the batch that last attempted a point and committed
\* issues no provider call for that point.
SecondBatchSkips ==
    [][\A s \in Slots : Starting(s) =>
          \A i \in DOMAIN batch'[s].pc :
              (lastDone[i] # None /\ clock - lastDone[i] <= Cooldown)
              => batch'[s].pc[i] = "skip"]_vars

SecondBatchSkipped ==
    \E s \in Slots :
        /\ batch[s].status = "running"
        /\ \E i \in DOMAIN batch[s].pc :
               /\ batch[s].pc[i] = "skip"
               /\ lastDone[i] # None
               /\ batch[s].now - lastDone[i] <= Cooldown
               /\ i \in DOMAIN cities
               /\ cities[i].temperature = None

\* C9: a step of a batch either leaves what a reader gets unchanged, or is the
\* commit of the batch and writes every attempted point of the batch at once.
BatchAtomic ==
    [][\A s \in Slots :
          (batch[s].status = "running"
             /\ (batch'[s].status # "running" \/ batch'[s].pc # batch[s].pc))
          => \/ \A u \in Users : read_root(cities', u) = read_root(cities, u)
             \/ /\ Committing(s)
                /\ \A i \in Attempted(batch[s]) :
                       /\ i \in DOMAIN cities'
                       /\ cities'[i].updated_at = batch[s].now
                       /\ (batch[s].cur[i].temperature # batch[s].orig[i].temperature
                             => cities'[i].temperature = batch[s].cur[i].temperature)]_vars

TwoPointsCommitted ==
    \E i, j \in DOMAIN cities :
        /\ i # j
        /\ cities[i].user_id = cities[j].user_id
        /\ lastDone[i] # None
        /\ lastDone[i] = lastDone[j]
        /\ cities[i].updated_at = lastDone[i]
        /\ cities[j].updated_at = lastDone[j]
        /\ \E s \in Slots : batch[s].status = "committed"

\* C10: in every state no owner has two points with the same name.
UniqueNames ==
    \A i, j \in DOMAIN cities :
        (cities[i].user_id = cities[j].user_id /\ cities[i].name = cities[j].name)
        => i = j

\* C11: an add_city request whose name the requesting owner already has is
\* answered like any other and leaves the table, every field of every row
\* included, and everything else but the request count as it was.
DuplicateInsertRejected ==
    [][\A u \in Users, n \in Names, la \in Lats, lo \in Lons :
          (add_city(u, n, la, lo)
             /\ \E i \in OwnedBy(cities, u) : cities[i].name = n)
          => /\ cities' = cities
             /\ batch' = batch
             /\ ops' = ops + 1]_vars

DuplicateOfRefreshedPoint ==
    /\ outcome.kind = "duplicate"
    /\ \E i \in DOMAIN cities : cities[i].updated_at # None

\* C12: a batch ends only with an outcome for every eligible point, and it
\* ends failed only when the row of an attempted point is no longer in the
\* table, whatever fetches failed; once no fetch is pending the commit can run.
BatchSurvivesFetchFailures ==
    [][\A s \in Slots : batch[s].status = "running" =>
          /\ ((\A i \in DOMAIN batch[s].pc : batch[s].pc[i] # "fetching")
                => ENABLED commit(s))
          /\ (batch'[s].status # "running" =>
                /\ \A i \in DOMAIN batch[s].pc :
                       Eligible(batch[s].orig[i].updated_at, batch[s].now)
                       => batch[s].pc[i] \in {"ok", "fail"}
                /\ batch'[s].status \in {"committed", "failed"}
                /\ (batch'[s].status = "failed"
                      => \E i \in Attempted(batch[s]) : i \notin DOMAIN cities))]_vars

AllFetchesFailedCommitted ==
    /\ \E s \in Slots : batch[s].status = "committed"
    /\ \E i, j \in DOMAIN cities :
           /\ i # j
           /\ cities[i].user_id = cities[j].user_id
           /\ cities[i].temperature = None
           /\ cities[j].temperature = None
           /\ lastDone[i] # None
           /\ lastDone[j] = lastDone[i]
           /\ cities[i].updated_at = lastDone[i]
           /\ cities[j].updated_at = lastDone[j]

\* C13: a remove_city request for an id that is not a row of the requesting
\* owner (no such row, or a row of another owner) is answered like any other
\* and leaves the table as it was; after any remove_city request the id is no
\* row of the requesting owner, so that the same request again changes nothing.
ForeignRemoveIgnored ==
    [][\A u \in Users, i \in Ids : remove_city(u, i) =>
          /\ (i \notin OwnedBy(cities, u) => cities' = cities /\ batch' = batch)
          /\ ops' = ops + 1
          /\ i \notin OwnedBy(cities', u)
          /\ \A j \in DOMAIN cities : j # i => (j \in DOMAIN cities' /\ cities'[j] = cities[j])]_vars

ForeignRemoveAnswered ==
    /\ outcome.kind = "not_found"
    /\ outcome.id \in DOMAIN cities

OthersUntouched(u) ==
    \A v \in Users \ {u} : read_root(cities', v) = read_root(cities, v)

\* C14: every add_city, remove_city, reset_cities request of an owner, and the
\* commit of every refresh batch of an owner, leaves the rows of every other
\* owner as they were.
OwnerIsolation ==
    [][/\ \A u \in Users, n \in Names, la \in Lats, lo \in Lons :
              add_city(u, n, la, lo) => OthersUntouched(u)
       /\ \A u \in Users, i \in Ids : remove_city(u, i) => OthersUntouched(u)
       /\ \A u \in Users : reset_cities(u) => OthersUntouched(u)
       /\ \A s \in Slots, u \in Users : update_weather(s, u) => OthersUntouched(u)
       /\ \A s \in Slots, i \in Ids, r \in Temps \cup {None} :
              fetch_weather(s, i, r) => OthersUntouched(batch[s].user)
       /\ \A s \in Slots : commit(s) => OthersUntouched(batch[s].user)]_vars

\* C15: in a running batch the provider has been called exactly once for
\* every eligible point, whether its fetch is pending, succeeded or failed,
\* and not at all for the others.
OneCallPerEligiblePoint ==
    \A s \in Slots : batch[s].status = "running" =>
        \A i \in DOMAIN batch[s].orig :
            /\ (Eligible(batch[s].orig[i].updated_at, batch[s].now)
                  => batch[s].calls[i] = 1 /\ batch[s].pc[i] # "skip")
            /\ (~ Eligible(batch[s].orig[i].updated_at, batch[s].now)
                  => batch[s].calls[i] = 0 /\ batch[s].pc[i] = "skip")

FailedAfterOneCall ==
    \E s \in Slots :
        /\ batch[s].status = "running"
        /\ \E i \in DOMAIN batch[s].pc :
               batch[s].pc[i] = "fail" /\ batch[s].calls[i] = 1

\* C16: the commit of a batch never replaces the timestamp of a point by an
\* earlier one.
TimestampNeverDecreases ==
    [][\A s \in Slots : Committing(s) =>
          \A i \in DOMAIN batch[s].orig \ batch[s].gone :
              (i \in DOMAIN cities /\ cities[i].updated_at # None)
              => cities'[i].updated_at >= cities[i].updated_at]_vars

\* C17: when a batch ends, no id that was removed from the table while the
\* batch held its row is the id of a row.
RemovedStaysRemoved ==
    [][\A s \in Slots :
          (batch[s].status = "running" /\ batch'[s].status # "running")
          => \A i \in batch[s].gone : i \notin DOMAIN cities']_vars

====
